---- MODULE Spec2Model ----
(***************************************************************************)
(* Model of src/main.py: the channel registry (APIs, check_api_quota,      *)
(* add_quota), the sitemap resolver (parse_sitemap), the per-URL           *)
(* dispatcher (index_with_api), the bulk forwarder (submit_to_1hping),     *)
(* the check request (check_domain) and the streaming session (ws_index).  *)
(*                                                                         *)
(* All handlers are coroutines of one event loop and every external call   *)
(* (requests, AuthorizedSession) is a blocking call made inside the        *)
(* coroutine, so the code between two awaits runs without interleaving.    *)
(* One action of the model is one such stretch of code, ending in the      *)
(* await (a send_text) that closes it.  The UTC date is read from the      *)
(* clock, which moves independently of the event loop: it may change       *)
(* between any two actions and while a blocking call is in progress.       *)
(***************************************************************************)
EXTENDS Integers, Sequences, FiniteSets, TLC

\* ------------------------------------------------------------------ bounds
MaxDay      == 1   \* the UTC date takes the values 0..MaxDay
MaxHeadroom == 1   \* a channel starts at 0 or within MaxHeadroom of the limit
MaxLocs     == 2   \* a sitemap document of the generated trees lists 0..MaxLocs locs

\* --------------------------------------------------------------- constants
DAILY_LIMIT == 200

Sessions     == {1, 2}
ChannelNames == {"API1", "API2"}
Days         == 0..MaxDay

\* API_CREDENTIALS in registration order (the first two of the five slots)
API_CREDENTIALS == <<"API1", "API2">>

\* ------------------------------------------------------------- the network
\* A document of the modelled web: what a GET of the URL yields.
\*   root "sitemapindex" / "urlset" / "other": a well-formed XML document
\*   root "malformed": a body ET.fromstring rejects
\* A URL outside DOMAIN Web cannot be fetched (connection error or 4xx/5xx).
Doc(root, locs) == [root |-> root, locs |-> locs]

Web ==
  [u \in {"https://a.test/sitemap_index.xml", "https://a.test/p1.xml",
          "https://a.test/p2.xml",
          "https://b.test/sitemap_index.xml", "https://b.test/p1.xml",
          "http://b.test/sitemap_index.xml",
          "https://d.test/sitemap_index.xml",
          "https://loop.test/sitemap_index.xml"} |->
     CASE u = "https://a.test/sitemap_index.xml" ->
            Doc("sitemapindex", <<"https://a.test/p1.xml", "https://a.test/p2.xml">>)
       [] u = "https://a.test/p1.xml" -> Doc("urlset", <<"https://a.test/1">>)
       [] u = "https://a.test/p2.xml" -> Doc("urlset", <<"https://a.test/2">>)
       [] u = "https://b.test/sitemap_index.xml" ->
            Doc("sitemapindex", <<"https://b.test/p1.xml", "https://b.test/gone.xml">>)
       [] u = "https://b.test/p1.xml" -> Doc("urlset", <<"https://b.test/1">>)
       [] u = "http://b.test/sitemap_index.xml" -> Doc("urlset", <<"http://b.test/1">>)
       [] u = "https://d.test/sitemap_index.xml" -> Doc("other", <<>>)
       [] u = "https://loop.test/sitemap_index.xml" ->
            Doc("sitemapindex", <<"https://loop.test/sitemap_index.xml">>)]

Domains == {"a.test", "b.test", "c.test", "d.test", "loop.test"}

\* Depth of nested parse_sitemap calls the interpreter allows before it
\* raises RecursionError (an Exception).
MaxDepth == 4

\* ------------------------------------------------------------ parse_sitemap
\* Result of a call: ok = FALSE when the call raises, else the list returned.
Raised      == [ok |-> FALSE, urls |-> <<>>]
Returned(l) == [ok |-> TRUE, urls |-> l]

RECURSIVE parse_sitemap_on(_, _, _)
RECURSIVE parse_children(_, _, _, _)
RECURSIVE parse_children_prepend(_, _, _, _)

\* The loop of lines 161-163 putting each child's URLs before the others'.
parse_children_prepend(web, locs, acc, depth) ==
  IF locs = <<>> THEN Returned(acc)
  ELSE LET r == parse_sitemap_on(web, Head(locs), depth + 1)
       IN IF r.ok THEN parse_children_prepend(web, Tail(locs), r.urls \o acc, depth)
          ELSE Raised

\* lines 161-163: for each child loc, urls.extend(parse_sitemap(loc));
\* the first child that raises ends the whole call.
parse_children(web, locs, acc, depth) ==
  IF locs = <<>> THEN Returned(acc)
  ELSE LET r == parse_sitemap_on(web, Head(locs), depth + 1)
       IN IF r.ok THEN parse_children(web, Tail(locs), acc \o r.urls, depth)
          ELSE Raised

\* lines 154-168, on a web (what each URL yields), at a depth of nesting.
parse_sitemap_on(web, url, depth) ==
  IF depth > MaxDepth THEN Raised                      \* RecursionError
  ELSE IF url \notin DOMAIN web THEN Raised            \* requests.get / raise_for_status
  ELSE LET doc == web[url]
       IN IF doc.root = "malformed" THEN Raised        \* ET.fromstring
          ELSE IF doc.root = "sitemapindex"
               THEN parse_children(web, doc.locs, <<>>, depth)
          ELSE IF doc.root = "urlset" THEN Returned(doc.locs)
          ELSE Returned(<<>>)                          \* neither branch: urls = []

\* parse_sitemap(url) on the modelled web.
parse_sitemap(url, depth) == parse_sitemap_on(Web, url, depth)

sitemap_url_https(domain) == "https://" \o domain \o "/sitemap_index.xml"
sitemap_url_http(domain)  == "http://" \o domain \o "/sitemap_index.xml"

\* Variants of the fallback: none at all, and HTTP fetched in every case.
resolve_without_fallback(domain) ==
  LET r1 == parse_sitemap(sitemap_url_https(domain), 1)
  IN [ok |-> r1.ok, urls |-> r1.urls, fetched |-> <<"https">>]

resolve_with_both(domain) ==
  LET r1 == parse_sitemap(sitemap_url_https(domain), 1)
      r2 == parse_sitemap(sitemap_url_http(domain), 1)
  IN IF r2.ok
     THEN [ok |-> TRUE, urls |-> r2.urls, fetched |-> <<"https", "http">>]
     ELSE [ok |-> r1.ok, urls |-> r1.urls, fetched |-> <<"https", "http">>]

\* lines 257-265 (and 205-211): HTTPS first, HTTP only when HTTPS raised.
\* fetched lists the root URLs tried, in order.
resolve_with_fallback(domain) ==
  LET r1 == parse_sitemap(sitemap_url_https(domain), 1)
  IN IF r1.ok
     THEN [ok |-> TRUE, urls |-> r1.urls, fetched |-> <<"https">>]
     ELSE LET r2 == parse_sitemap(sitemap_url_http(domain), 1)
          IN [ok |-> r2.ok, urls |-> r2.urls, fetched |-> <<"https", "http">>]

\* ------------------------------------------------------------------- quota
\* Variants of check_api_quota with a slip: a gate that lets one more through,
\* and a rollover that forgets the counter.
check_api_quota_lenient(u, d, today) ==
  IF today # d
  THEN [used |-> 0, day |-> today, ret |-> DAILY_LIMIT + 1]
  ELSE [used |-> u, day |-> d, ret |-> DAILY_LIMIT + 1 - u]

check_api_quota_noreset(u, d, today) ==
  [used |-> u, day |-> today, ret |-> DAILY_LIMIT - u]

\* lines 119-124, check_api_quota on a channel with (used, day) at date today:
\* the channel's fields afterwards and the value returned.
check_api_quota(u, d, today) ==
  IF today # d
  THEN [used |-> 0, day |-> today, ret |-> DAILY_LIMIT - 0]
  ELSE [used |-> u, day |-> d, ret |-> DAILY_LIMIT - u]

\* add_quota assigning instead of adding.
add_quota_assign(u, count) == count

\* lines 126-127
add_quota(u, count) == u + count

\* lines 144-152, index_with_api on a channel with used = u.  resp is what the
\* transport does: "ok" a JSON body without an error field, "error" a JSON
\* body whose error field is an object, "error_text" a JSON body whose error
\* field is not an object, "empty" a body response.json() rejects, "raise"
\* the post raising (timeout, connection error).
\*   raised: the call raised, and add_quota was not reached
\*   error:  the error field of the result returned ("absent" when none)
Responses == {"ok", "error", "error_text", "empty", "raise"}

\* index_with_api counting the attempt before the post.
index_with_api_counting(u, resp) ==
  IF resp = "raise"
  THEN [used |-> add_quota(u, 1), raised |-> TRUE, error |-> "absent"]
  ELSE [used |-> add_quota(u, 1), raised |-> FALSE,
        error |-> CASE resp = "error" -> "object"
                    [] resp = "error_text" -> "other"
                    [] OTHER -> "absent"]

index_with_api(u, resp) ==
  IF resp = "raise"
  THEN [used |-> u, raised |-> TRUE, error |-> "absent"]
  ELSE [used |-> add_quota(u, 1), raised |-> FALSE,
        error |-> CASE resp = "error" -> "object"
                    [] resp = "error_text" -> "other"
                    [] OTHER -> "absent"]

\* lines 173-191, submit_to_1hping(urls).  key: HPING_API_KEY is set;
\* net is what the POST does: "200", "500" (any other status) or "raise".
\*   status: the first component returned ("None" for None)
\*   resp:   the second: "not_set" the fixed text of line 176, "exception"
\*           str(e) of line 191, "body" the service's answer
\*   posted: the URL lists sent to the service
HpingOutcomes == {"200", "500", "raise"}

submit_to_1hping(list, key, net) ==
  IF ~key THEN [status |-> "None", resp |-> "not_set", posted |-> <<>>]
  ELSE IF net = "raise"
       THEN [status |-> "None", resp |-> "exception", posted |-> <<list>>]
  ELSE [status |-> net, resp |-> "body", posted |-> <<list>>]

\* The test of line 295 taking every status the service returned for success.
bulk_ok_any_status(status) == status # "None"

\* line 295: hping_status == 200
bulk_ok(status) == status = "200"

\* ------------------------------------------------------------------- state
VARIABLES
  APIs,           \* names of the loaded channels, in registration order
  used,           \* api["used"] of each channel
  day,            \* api["day"] of each channel
  HPING_API_KEY,  \* whether the key is set
  today,          \* datetime.utcnow().date()
  pc,             \* where each session's coroutine stands
  connected,      \* the observer's end of each websocket is open
  closed,         \* the controller has closed the websocket
  api_name,       \* path parameter api_name
  domain,         \* path parameter domain
  api,            \* the channel selected (line 250)
  urls,           \* the resolved list (lines 259-261)
  i,              \* the loop index of line 272
  success,        \* line 271
  fail,           \* line 271
  sent,           \* the messages delivered to the observer, in order
  fetched,        \* root sitemap variants tried, in order
  posted,         \* URLs given to index_with_api, in order
  hping_args,     \* URL lists handed to submit_to_1hping
  hping_posted,   \* URL lists it sent to the service
  hping_status,   \* the status it returned
  hping_resp,     \* the text it returned with it
  quota0,         \* history: remaining quota when dispatching started
  disturbed,      \* history: another session submitted on the channel, or
                  \*          the date changed, while this one dispatched
  base,           \* history: used when the channel's current count began
  attempts,       \* history: index_with_api calls since the count began
  counted,        \* history: those of them whose post returned
  probe           \* one call of check_api_quota: its input and its result

registry == <<APIs, used, day, HPING_API_KEY>>
request  == <<api_name, domain, api>>
loopvars == <<urls, i, success, fail>>
bulkvars == <<hping_args, hping_posted, hping_status, hping_resp>>
c2hist   == <<quota0, disturbed>>
c5hist   == <<base, attempts, counted>>
vars == <<APIs, used, day, HPING_API_KEY, today, pc, connected, closed,
          api_name, domain, api, urls, i, success, fail, sent, fetched,
          posted, hping_args, hping_posted, hping_status, hping_resp, quota0,
          disturbed, base, attempts, counted, probe>>

\* ---------------------------------------------------------------- messages
Event(kind, index, total, url, ok, succ, fl, text) ==
  [kind |-> kind, index |-> index, total |-> total, url |-> url, ok |-> ok,
   success |-> succ, fail |-> fl, text |-> text]

EvError(text)          == Event("error", 0, 0, "", FALSE, 0, 0, text)
EvStarted(name)        == Event("started", 0, 0, "", TRUE, 0, 0, name)
EvResolved(total)      == Event("sitemap_resolved", 0, total, "", TRUE, 0, 0, "")
\* The item message numbered by a counter that is never advanced.
EvItem_unnumbered(k, total, u, ok) == Event("item_result", 1, total, u, ok, 0, 0, "")

EvItem(k, total, u, ok) == Event("item_result", k, total, u, ok, 0, 0, "")
EvQuotaExhausted       == Event("quota_exhausted", 0, 0, "", TRUE, 0, 0, "")
\* The totals message without the failures.
EvPhaseComplete_nofail(sc, fl) == Event("phase_complete", 0, 0, "", TRUE, sc, 0, "")

EvPhaseComplete(sc, fl) == Event("phase_complete", 0, 0, "", TRUE, sc, fl, "")
EvBulkNotice           == Event("bulk_forwarding", 0, 0, "", TRUE, 0, 0, "")
EvBulkResult(ok)       == Event("bulk_result", 0, 0, "", ok, 0, 0, "")

\* await websocket.send_text(ev): delivered while the observer is connected;
\* otherwise it raises, the handlers of lines 301-309 run (their own send
\* raises too and is swallowed) and the coroutine ends.
Terminal == {"completed", "failed", "torn"}

\* A send that does not learn of the disconnect.
SendOr_heedless(s, evs, goto, closes) ==
  /\ sent' = [sent EXCEPT ![s] = @ \o evs]
  /\ pc' = [pc EXCEPT ![s] = goto]
  /\ closed' = [closed EXCEPT ![s] = closes]

\* A send after which the connection is never closed.
SendOr_unclosed(s, evs, goto, closes) ==
  IF connected[s]
  THEN /\ sent' = [sent EXCEPT ![s] = @ \o evs]
       /\ pc' = [pc EXCEPT ![s] = goto]
       /\ closed' = closed
  ELSE /\ sent' = sent
       /\ pc' = [pc EXCEPT ![s] = "torn"]
       /\ closed' = closed

SendOr(s, evs, goto, closes) ==
  IF connected[s]
  THEN /\ sent' = [sent EXCEPT ![s] = @ \o evs]
       /\ pc' = [pc EXCEPT ![s] = goto]
       /\ closed' = [closed EXCEPT ![s] = closes]
  ELSE /\ sent' = sent
       /\ pc' = [pc EXCEPT ![s] = "torn"]
       /\ closed' = closed

\* ------------------------------------------------------------------- Init
StartUsed == {0} \cup ((DAILY_LIMIT - MaxHeadroom)..DAILY_LIMIT)

RECURSIVE SubSeqs(_)
SubSeqs(q) ==
  IF q = <<>> THEN {<<>>}
  ELSE LET rest == SubSeqs(Tail(q))
       IN rest \cup {<<Head(q)>> \o r : r \in rest}

Range(q) == {q[k] : k \in 1..Len(q)}

InitProgram ==
  /\ APIs \in SubSeqs(API_CREDENTIALS)
  /\ used \in [ChannelNames -> StartUsed]
  /\ \A c \in ChannelNames \ Range(APIs) : used[c] = 0
  /\ day = [c \in ChannelNames |-> 0]
  /\ HPING_API_KEY \in BOOLEAN
  /\ today = 0
  /\ pc = [s \in Sessions |-> "idle"]
  /\ connected = [s \in Sessions |-> FALSE]
  /\ closed = [s \in Sessions |-> FALSE]
  /\ api_name = [s \in Sessions |-> ""]
  /\ domain = [s \in Sessions |-> ""]
  /\ api = [s \in Sessions |-> ""]
  /\ urls = [s \in Sessions |-> <<>>]
  /\ i = [s \in Sessions |-> 0]
  /\ success = [s \in Sessions |-> 0]
  /\ fail = [s \in Sessions |-> 0]
  /\ sent = [s \in Sessions |-> <<>>]
  /\ fetched = [s \in Sessions |-> <<>>]
  /\ posted = [s \in Sessions |-> <<>>]
  /\ hping_args = [s \in Sessions |-> <<>>]
  /\ hping_posted = [s \in Sessions |-> <<>>]
  /\ hping_status = [s \in Sessions |-> ""]
  /\ hping_resp = [s \in Sessions |-> ""]
  /\ quota0 = [s \in Sessions |-> -1]
  /\ disturbed = [s \in Sessions |-> FALSE]
  /\ base = used
  /\ attempts = [c \in ChannelNames |-> 0]
  /\ counted = [c \in ChannelNames |-> 0]

NoProbe == [used |-> 0, day |-> 0, today |-> 0, out |-> <<>>]

Init ==
  /\ InitProgram
  /\ probe = NoProbe

\* ----------------------------------------------------------------- actions
\* The channel's history counters after a quota check that left it at
\* (q.used, q.day): a rollover begins a new count.
Rolled(c, q) == q.day # day[c]

\* Sessions other than s that are inside the dispatch loop on channel c.
Dispatching(c, s) == {t \in Sessions \ {s} : pc[t] = "dispatching" /\ api[t] = c}

\* The selection without its filter.
select_api_any(name) == APIs

\* line 245: the loaded channels of that name.
select_api(name) == SelectSeq(APIs, LAMBDA a : a = name)

\* The bulk forward given the URLs that were submitted.
hping_input_attempted(s) == posted[s]

\* line 293: the list handed to submit_to_1hping.
hping_input(s) == urls[s]

\* line 237: a connection for /ws/{api_name}/{domain} is accepted.
Accept(s, name, dom) ==
  /\ pc[s] = "idle"
  /\ pc' = [pc EXCEPT ![s] = "accepted"]
  /\ connected' = [connected EXCEPT ![s] = TRUE]
  /\ api_name' = [api_name EXCEPT ![s] = name]
  /\ domain' = [domain EXCEPT ![s] = dom]
  /\ UNCHANGED <<probe, registry, today, closed, api, loopvars, sent, fetched, posted,
                 bulkvars, c2hist, c5hist>>

\* The observer closes its end; the coroutine learns of it at its next send.
Disconnect(s) ==
  /\ pc[s] \notin Terminal \cup {"idle"}
  /\ connected[s]
  /\ connected' = [connected EXCEPT ![s] = FALSE]
  /\ UNCHANGED <<probe, registry, today, pc, closed, request, loopvars, sent, fetched,
                 posted, bulkvars, c2hist, c5hist>>

\* lines 239-253: no channel loaded, or none of that name: one message and
\* close; otherwise select the channel and announce the start.
Lookup(s) ==
  /\ pc[s] = "accepted"
  /\ LET sel == select_api(api_name[s])
     IN IF APIs = <<>>
        THEN /\ SendOr(s, <<EvError("no_api")>>, "failed", TRUE)
             /\ api' = api
        ELSE IF sel = <<>>
        THEN /\ SendOr(s, <<EvError("not_found")>>, "failed", TRUE)
             /\ api' = api
        ELSE /\ SendOr(s, <<EvStarted(sel[1])>>, "resolving", FALSE)
             /\ api' = [api EXCEPT ![s] = sel[1]]
  /\ UNCHANGED <<probe, registry, today, connected, api_name, domain, loopvars, fetched,
                 posted, bulkvars, c2hist, c5hist>>

\* lines 255-271: resolve the sitemap with the protocol fallback; on failure
\* one message and close, otherwise announce the total and enter the loop.
Resolve(s) ==
  /\ pc[s] = "resolving"
  /\ LET r == resolve_with_fallback(domain[s])
         c == api[s]
     IN /\ fetched' = [fetched EXCEPT ![s] = r.fetched]
        /\ IF ~r.ok
           THEN /\ SendOr(s, <<EvError("sitemap")>>, "failed", TRUE)
                /\ UNCHANGED <<loopvars, quota0>>
           ELSE /\ SendOr(s, <<EvResolved(Len(r.urls))>>,
                          IF Len(r.urls) = 0 THEN "phase" ELSE "dispatching", FALSE)
                /\ urls' = [urls EXCEPT ![s] = r.urls]
                /\ i' = [i EXCEPT ![s] = 1]
                /\ success' = [success EXCEPT ![s] = 0]
                /\ fail' = [fail EXCEPT ![s] = 0]
                /\ quota0' = [quota0 EXCEPT ![s] =
                                check_api_quota(used[c], day[c], today).ret]
  /\ UNCHANGED <<probe, registry, today, connected, request, posted, bulkvars,
                 disturbed, c5hist>>

\* lines 272-286, one iteration: the quota check, then either the
\* quota_exhausted message and the break, or index_with_api and the item
\* message.  resp is the transport's answer and t2 the date when it returns.
Dispatch(s, resp, t2) ==
  /\ pc[s] = "dispatching"
  /\ LET c == api[s]
         n == Len(urls[s])
         u == urls[s][i[s]]
         q == check_api_quota(used[c], day[c], today)
         b0 == IF Rolled(c, q) THEN 0 ELSE base[c]
         a0 == IF Rolled(c, q) THEN 0 ELSE attempts[c]
         k0 == IF Rolled(c, q) THEN 0 ELSE counted[c]
     IN /\ day' = [day EXCEPT ![c] = q.day]
        /\ base' = [base EXCEPT ![c] = b0]
        /\ IF q.ret <= 0
           THEN /\ used' = [used EXCEPT ![c] = q.used]
                /\ today' = today
                /\ SendOr(s, <<EvQuotaExhausted>>, "phase", FALSE)
                /\ attempts' = [attempts EXCEPT ![c] = a0]
                /\ counted' = [counted EXCEPT ![c] = k0]
                /\ UNCHANGED <<loopvars, posted, disturbed>>
           ELSE LET r == index_with_api(q.used, resp)
                IN /\ used' = [used EXCEPT ![c] = r.used]
                   /\ today' = t2
                   /\ posted' = [posted EXCEPT ![s] = Append(@, u)]
                   /\ attempts' = [attempts EXCEPT ![c] = a0 + 1]
                   /\ counted' = [counted EXCEPT ![c] =
                                    IF r.raised THEN k0 ELSE k0 + 1]
                   /\ disturbed' =
                        [t \in Sessions |->
                           \/ disturbed[t]
                           \/ t \in Dispatching(c, s)
                           \/ (t2 # today /\ pc[t] = "dispatching")]
                   /\ IF r.raised
                      THEN \* the post raised: lines 303-307
                           /\ SendOr(s, <<EvError("server")>>, "failed", TRUE)
                           /\ UNCHANGED loopvars
                      ELSE IF r.error = "other"
                      THEN \* line 280, then line 281 raises: lines 303-307
                           /\ SendOr(s, <<EvError("server")>>, "failed", TRUE)
                           /\ fail' = [fail EXCEPT ![s] = @ + 1]
                           /\ UNCHANGED <<urls, i, success>>
                      ELSE /\ SendOr(s, <<EvItem(i[s], n, u, r.error = "absent")>>,
                                     IF i[s] + 1 > n THEN "phase" ELSE "dispatching",
                                     FALSE)
                           /\ i' = [i EXCEPT ![s] = @ + 1]
                           /\ success' = [success EXCEPT ![s] =
                                            IF r.error = "absent" THEN @ + 1 ELSE @]
                           /\ fail' = [fail EXCEPT ![s] =
                                         IF r.error = "absent" THEN @ ELSE @ + 1]
                           /\ urls' = urls
  /\ UNCHANGED <<probe, APIs, HPING_API_KEY, connected, request, fetched, bulkvars, quota0>>

\* line 288: quota_message(api) runs check_api_quota, then the totals are sent.
PhaseComplete(s) ==
  /\ pc[s] = "phase"
  /\ LET c == api[s]
         q == check_api_quota(used[c], day[c], today)
     IN /\ used' = [used EXCEPT ![c] = q.used]
        /\ day' = [day EXCEPT ![c] = q.day]
        /\ base' = [base EXCEPT ![c] = IF Rolled(c, q) THEN 0 ELSE @]
        /\ attempts' = [attempts EXCEPT ![c] = IF Rolled(c, q) THEN 0 ELSE @]
        /\ counted' = [counted EXCEPT ![c] = IF Rolled(c, q) THEN 0 ELSE @]
  /\ SendOr(s, <<EvPhaseComplete(success[s], fail[s])>>, "notice", FALSE)
  /\ UNCHANGED <<probe, APIs, HPING_API_KEY, today, connected, request, loopvars,
                 fetched, posted, bulkvars, c2hist>>

\* lines 292-294: the notice, then submit_to_1hping(urls).
BulkForward(s, net) ==
  /\ pc[s] = "notice"
  /\ SendOr(s, <<EvBulkNotice>>, "reporting", FALSE)
  /\ IF connected[s]
     THEN LET r == submit_to_1hping(hping_input(s), HPING_API_KEY, net)
          IN /\ hping_args' = [hping_args EXCEPT ![s] = Append(@, hping_input(s))]
             /\ hping_posted' = [hping_posted EXCEPT ![s] = @ \o r.posted]
             /\ hping_status' = [hping_status EXCEPT ![s] = r.status]
             /\ hping_resp' = [hping_resp EXCEPT ![s] = r.resp]
     ELSE UNCHANGED bulkvars
  /\ UNCHANGED <<probe, registry, today, connected, request, loopvars, fetched, posted,
                 c2hist, c5hist>>

\* lines 295-300: the outcome of the bulk forward, then close.
Report(s) ==
  /\ pc[s] = "reporting"
  /\ SendOr(s, <<EvBulkResult(bulk_ok(hping_status[s]))>>, "completed", TRUE)
  /\ UNCHANGED <<probe, registry, today, connected, request, loopvars, fetched, posted,
                 bulkvars, c2hist, c5hist>>

\* The check request offering every loaded channel.
check_domain_all(dom) ==
  LET r == resolve_with_fallback(dom)
      q(c) == check_api_quota(used[c], day[c], today)
      loaded(c) == c \in Range(APIs)
  IN [ok |-> r.ok,
      total |-> Len(r.urls),
      used |-> [c \in ChannelNames |-> IF r.ok /\ loaded(c) THEN q(c).used ELSE used[c]],
      day |-> [c \in ChannelNames |-> IF r.ok /\ loaded(c) THEN q(c).day ELSE day[c]],
      candidates |-> IF r.ok THEN APIs ELSE <<>>]

\* lines 200-229, check_domain: resolve, then check_api_quota (twice, the
\* second time inside quota_message) on every loaded channel.
check_domain(dom) ==
  LET r == resolve_with_fallback(dom)
      q(c) == check_api_quota(used[c], day[c], today)
      loaded(c) == c \in Range(APIs)
  IN [ok |-> r.ok,
      total |-> Len(r.urls),
      used |-> [c \in ChannelNames |-> IF r.ok /\ loaded(c) THEN q(c).used ELSE used[c]],
      day |-> [c \in ChannelNames |-> IF r.ok /\ loaded(c) THEN q(c).day ELSE day[c]],
      candidates |-> IF r.ok THEN SelectSeq(APIs, LAMBDA c : q(c).ret >= Len(r.urls))
                     ELSE <<>>]

CheckDomain(dom) ==
  /\ LET r == check_domain(dom)
     IN /\ used' = r.used
        /\ day' = r.day
        /\ base' = [c \in ChannelNames |-> IF r.day[c] # day[c] THEN 0 ELSE base[c]]
        /\ attempts' = [c \in ChannelNames |-> IF r.day[c] # day[c] THEN 0 ELSE attempts[c]]
        /\ counted' = [c \in ChannelNames |-> IF r.day[c] # day[c] THEN 0 ELSE counted[c]]
  /\ UNCHANGED <<probe, APIs, HPING_API_KEY, today, pc, connected, closed, request,
                 loopvars, sent, fetched, posted, bulkvars, c2hist>>

\* The UTC date changes.
Tick ==
  /\ today < MaxDay
  /\ today' = today + 1
  /\ disturbed' = [t \in Sessions |-> disturbed[t] \/ pc[t] = "dispatching"]
  /\ UNCHANGED <<probe, registry, pc, connected, closed, request, loopvars, sent,
                 fetched, posted, bulkvars, quota0, c5hist>>

\* One observer session with every input, beside check requests and the clock.
Solo == {1}

Next ==
  \/ \E s \in Solo, name \in ChannelNames, dom \in Domains : Accept(s, name, dom)
  \/ \E s \in Solo : Disconnect(s)
  \/ \E s \in Solo : Lookup(s)
  \/ \E s \in Solo : Resolve(s)
  \/ \E s \in Solo, resp \in Responses, t2 \in {today, today + 1} \cap Days :
       Dispatch(s, resp, t2)
  \/ \E s \in Solo : PhaseComplete(s)
  \/ \E s \in Solo, net \in HpingOutcomes : BulkForward(s, net)
  \/ \E s \in Solo : Report(s)
  \/ \E dom \in Domains : CheckDomain(dom)
  \/ Tick

Spec == Init /\ [][Next]_vars

\* The same with the event loop scheduling: a coroutine that is ready runs,
\* and each of its blocking calls ends (every request carries a timeout).
SessionStep(s) ==
  \/ Lookup(s)
  \/ Resolve(s)
  \/ \E resp \in Responses, t2 \in {today, today + 1} \cap Days : Dispatch(s, resp, t2)
  \/ PhaseComplete(s)
  \/ \E net \in HpingOutcomes : BulkForward(s, net)
  \/ Report(s)

Fairness == \A s \in Solo : WF_vars(SessionStep(s))

SpecLive == Init /\ [][Next]_vars /\ Fairness

\* Two concurrent observer sessions sharing the one loaded channel: every
\* interleaving of their stretches of code, of check requests and of the
\* clock, for the domains whose sitemap resolves, observers that stay
\* connected and a bulk service that answers 200.
SharedDomains == {"a.test", "b.test"}

InitShared ==
  /\ Init
  /\ APIs = <<"API1">>
  /\ HPING_API_KEY

NextShared ==
  \/ \E s \in Sessions, dom \in SharedDomains : Accept(s, "API1", dom)
  \/ \E s \in Sessions : Lookup(s)
  \/ \E s \in Sessions : Resolve(s)
  \/ \E s \in Sessions, resp \in Responses, t2 \in {today, today + 1} \cap Days :
       Dispatch(s, resp, t2)
  \/ \E s \in Sessions : PhaseComplete(s)
  \/ \E s \in Sessions : BulkForward(s, "200")
  \/ \E s \in Sessions : Report(s)
  \/ \E dom \in SharedDomains : CheckDomain(dom)
  \/ Tick

SpecShared == InitShared /\ [][NextShared]_vars

\* check_api_quota applied to every (used, day) a channel can hold, at every
\* date.
ProbeInputs ==
  [used : 0..DAILY_LIMIT, day : Days, today : Days, out : {<<>>}]

InitQuota ==
  /\ InitProgram
  /\ APIs = API_CREDENTIALS
  /\ HPING_API_KEY
  /\ used = [c \in ChannelNames |-> 0]
  /\ probe \in ProbeInputs

QuotaCall ==
  /\ probe.out = <<>>
  /\ probe' = [probe EXCEPT
                 !.out = <<check_api_quota(probe.used, probe.day, probe.today)>>]
  /\ UNCHANGED <<APIs, used, day, HPING_API_KEY, today, pc, connected, closed,
                 api_name, domain, api, urls, i, success, fail, sent, fetched,
                 posted, hping_args, hping_posted, hping_status, hping_resp,
                 quota0, disturbed, base, attempts, counted>>

NextQuota == QuotaCall

SpecQuota == InitQuota /\ [][NextQuota]_vars

\* parse_sitemap applied to the root of every sitemap tree of up to three
\* documents, each a url set of up to MaxLocs page URLs or a sitemap index of
\* up to MaxLocs of the documents after it (so that no document is reached
\* from itself); a loc may be listed twice.
TreeNodes == <<"n1.xml", "n2.xml", "n3.xml">>
PageUrls  == {"x", "y"}

SeqsUpTo(S, n) == UNION {[1..k -> S] : k \in 0..n}

TreeDocs(k) ==
  {Doc("urlset", l) : l \in SeqsUpTo(PageUrls, MaxLocs)}
    \cup {Doc("sitemapindex", l) :
            l \in SeqsUpTo({TreeNodes[j] : j \in (k + 1)..Len(TreeNodes)}, MaxLocs)}

TreeWebs ==
  {w \in [Range(TreeNodes) -> UNION {TreeDocs(k) : k \in 1..Len(TreeNodes)}] :
     \A k \in 1..Len(TreeNodes) : w[TreeNodes[k]] \in TreeDocs(k)}

InitSitemap ==
  /\ InitProgram
  /\ APIs = API_CREDENTIALS
  /\ HPING_API_KEY
  /\ used = [c \in ChannelNames |-> 0]
  /\ probe \in [web : TreeWebs, root : {TreeNodes[1]}, out : {<<>>}]

SitemapCall ==
  /\ probe.out = <<>>
  /\ probe' = [probe EXCEPT !.out = <<parse_sitemap_on(probe.web, probe.root, 1)>>]
  /\ UNCHANGED <<APIs, used, day, HPING_API_KEY, today, pc, connected, closed,
                 api_name, domain, api, urls, i, success, fail, sent, fetched,
                 posted, hping_args, hping_posted, hping_status, hping_resp,
                 quota0, disturbed, base, attempts, counted>>

NextSitemap == SitemapCall

SpecSitemap == InitSitemap /\ [][NextSitemap]_vars

\* The check request for every domain, on every registry and at every date,
\* its response kept.
CheckCall(dom) ==
  /\ LET r == check_domain(dom)
     IN /\ used' = r.used
        /\ day' = r.day
        /\ base' = [c \in ChannelNames |-> IF r.day[c] # day[c] THEN 0 ELSE base[c]]
        /\ attempts' = [c \in ChannelNames |-> IF r.day[c] # day[c] THEN 0 ELSE attempts[c]]
        /\ counted' = [c \in ChannelNames |-> IF r.day[c] # day[c] THEN 0 ELSE counted[c]]
        /\ probe' = [dom |-> dom, out |-> <<r>>]
  /\ UNCHANGED <<APIs, HPING_API_KEY, today, pc, connected, closed, request,
                 loopvars, sent, fetched, posted, bulkvars, c2hist>>

NextCheck ==
  \/ \E dom \in Domains : CheckCall(dom)
  \/ Tick

SpecCheck == Init /\ [][NextCheck]_vars

\* ================================================================== claims
Kinds(s) == {sent[s][k].kind : k \in 1..Len(sent[s])}

IsPrefix(a, b) == Len(a) <= Len(b) /\ a = SubSeq(b, 1, Len(a))

RECURSIVE SumFn(_, _)
SumFn(f, S) ==
  IF S = {} THEN 0
  ELSE LET x == CHOOSE y \in S : TRUE IN f[x] + SumFn(f, S \ {x})

Rank(kind) ==
  CASE kind = "started"          -> 1
    [] kind = "sitemap_resolved" -> 2
    [] kind = "item_result"      -> 3
    [] kind = "quota_exhausted"  -> 4
    [] kind = "phase_complete"   -> 5
    [] kind = "bulk_forwarding"  -> 6
    [] kind = "bulk_result"      -> 7
    [] OTHER                     -> 8

\* C1: the messages delivered to a session's observer come in the order
\* started, sitemap_resolved{total}, item_result with strictly increasing
\* 1-based index, at most one quota_exhausted, phase_complete{success, fail},
\* bulk_result: started is first and sitemap_resolved second, no kind but
\* item_result occurs twice, no message of an earlier kind follows one of a
\* later kind (so no item_result follows quota_exhausted or phase_complete),
\* and nothing follows bulk_result or an error.  The notice of line 292 is
\* delivered between phase_complete and bulk_result.
C1_EventOrder ==
  \A s \in Sessions :
    \A k \in 1..Len(sent[s]) :
      LET e == sent[s][k]
          before == {sent[s][j].kind : j \in 1..(k - 1)}
      IN /\ e.kind = "started" => k = 1
         /\ e.kind = "sitemap_resolved" =>
              k = 2 /\ sent[s][1].kind = "started" /\ e.total = Len(urls[s])
         /\ e.kind \in {"item_result", "quota_exhausted", "phase_complete"} =>
              "sitemap_resolved" \in before
         /\ e.kind = "item_result" => e.index >= 1 /\ e.total = Len(urls[s])
         /\ e.kind = "phase_complete" =>
              e.success = success[s] /\ e.fail = fail[s]
         /\ e.kind = "bulk_forwarding" => "phase_complete" \in before
         /\ e.kind = "bulk_result" => "bulk_forwarding" \in before
         /\ \A j \in 1..(k - 1) :
              LET d == sent[s][j]
              IN /\ d.kind \notin {"bulk_result", "error"}
                 /\ e.kind # "error" => Rank(d.kind) <= Rank(e.kind)
                 /\ d.kind = e.kind =>
                      d.kind = "item_result" /\ d.index < e.index

\* A session that delivered an item, was stopped by the quota and went on to
\* bulk_result.
C1_Witness ==
  \E s \in Sessions :
    /\ pc[s] = "completed"
    /\ Len(sent[s]) = 7
    /\ sent[s][3].kind = "item_result"
    /\ sent[s][4].kind = "quota_exhausted"
    /\ sent[s][7].kind = "bulk_result"

\* The loop was left in the ordinary way: by the break or by running out of URLs.
LoopLeft(s) == pc[s] \in {"phase", "notice", "reporting", "completed"}

\* C2: a session that starts dispatching n URLs with k < n quota
\* left attempts exactly the first k, reports quota_exhausted and forwards
\* all n URLs.
C2_ExactlyK ==
  \A s \in Sessions :
    (pc[s] = "completed" /\ quota0[s] >= 0 /\ Len(urls[s]) > quota0[s]) =>
      /\ posted[s] = SubSeq(urls[s], 1, quota0[s])
      /\ "quota_exhausted" \in Kinds(s)
      /\ hping_args[s] = <<urls[s]>>

\* C2, amended: provided no other session submits on the channel and the UTC
\* date does not change while the session dispatches, a session that starts
\* dispatching n URLs with k < n quota left never attempts more than the
\* first k URLs in order; once it has left the loop it has attempted exactly
\* those k and reported quota_exhausted, and when it performs the bulk
\* forward it has reported phase_complete and hands over all n URLs.
C2_QuotaStopsUndisturbed ==
  \A s \in Sessions :
    (quota0[s] >= 0 /\ Len(urls[s]) > quota0[s] /\ ~disturbed[s]) =>
      /\ Len(posted[s]) <= quota0[s]
      /\ IsPrefix(posted[s], urls[s])
      /\ LoopLeft(s) =>
           /\ posted[s] = SubSeq(urls[s], 1, quota0[s])
           /\ "quota_exhausted" \in Kinds(s)
           /\ Len(sent[s]) >= quota0[s] + 3
           /\ sent[s][quota0[s] + 3].kind = "quota_exhausted"
      /\ pc[s] \in {"reporting", "completed"} =>
           /\ "phase_complete" \in Kinds(s)
           /\ hping_args[s] = <<urls[s]>>
           /\ Len(hping_args[s][1]) = Len(urls[s])

\* Two sessions on the channel; one of them, undisturbed, had quota for one
\* of its two URLs and completed.
C2_Witness ==
  \E s \in Sessions :
    /\ pc[s] = "completed"
    /\ ~disturbed[s]
    /\ quota0[s] = 1
    /\ Len(urls[s]) = 2
    /\ \E t \in Sessions \ {s} : pc[t] # "idle"

\* The channel's counter as index_with_api finds it: after the check of line
\* 273 applied the rollover.
UsedAtPost(c) == IF day[c] = today THEN used[c] ELSE 0

\* The step is an index_with_api call of session s.
Posts(s) == posted'[s] # posted[s]

\* The call returned a response (line 279 was reached).
PostReturned(s) == success'[s] + fail'[s] # success[s] + fail[s]

\* C3: every index_with_api call raises the channel's used_count by exactly
\* 1 and leaves the other channels' counts alone.
C3_CountsEveryAttempt ==
  [][\A s \in Sessions :
       Posts(s) =>
         /\ used'[api[s]] = UsedAtPost(api[s]) + 1
         /\ \A c \in ChannelNames \ {api[s]} : used'[c] = used[c]]_vars

\* What the calls do: one whose transport call returns a response raises
\* used_count by exactly 1, whether the response is a success or carries an
\* error; one whose transport call raises leaves it as it was; none changes
\* another channel's used_count.
CountsReturnedAttempts ==
  [][\A s \in Sessions :
       Posts(s) =>
         /\ PostReturned(s) => used'[api[s]] = UsedAtPost(api[s]) + 1
         /\ ~PostReturned(s) => used'[api[s]] = UsedAtPost(api[s])
         /\ \A c \in ChannelNames \ {api[s]} : used'[c] = used[c]]_vars

\* C4: no channel's used_count ever exceeds DAILY_LIMIT, for concurrent
\* sessions on one channel and every interleaving of their quota checks and
\* submissions with check requests and day rollovers.
C4_WithinLimit ==
  \A c \in ChannelNames : used[c] >= 0 /\ used[c] <= DAILY_LIMIT

\* The channel is full after a submission of one session, and the other
\* session, dispatching at the same time, was refused.
C4_Witness ==
  \E s \in Sessions, t \in Sessions :
    /\ s # t
    /\ api[s] \in ChannelNames
    /\ api[s] = api[t]
    /\ used[api[s]] = DAILY_LIMIT
    /\ posted[s] # <<>>
    /\ posted[t] = <<>>
    /\ "quota_exhausted" \in Kinds(t)

\* index_with_api calls of all sessions on channel c, and those that returned.
AttemptsOn(c) ==
  SumFn([s \in Sessions |-> IF api[s] = c THEN Len(posted[s]) ELSE 0], Sessions)

AnsweredOn(c) ==
  SumFn([s \in Sessions |-> IF api[s] = c THEN success[s] + fail[s] ELSE 0], Sessions)

\* C5: within a day, used_count is its value when the day's count began plus
\* the number of submission attempts of all sessions on the channel: no
\* increment is lost or applied twice under any interleaving.
C5_CountsAllAttempts ==
  \A c \in ChannelNames :
    /\ used[c] = base[c] + attempts[c]
    /\ day[c] = 0 => used[c] = base[c] + AttemptsOn(c)

\* What holds under every interleaving: between two rollovers of a channel,
\* used_count is its value when the count began plus the number of attempts,
\* of all sessions on the channel, whose transport call returned a response.
NoLostUpdate ==
  \A c \in ChannelNames :
    /\ used[c] = base[c] + counted[c]
    /\ day[c] = 0 => used[c] = base[c] + AnsweredOn(c)

\* C6: check_api_quota called when the channel's day differs from the UTC
\* date sets used to 0 and day to the date and returns DAILY_LIMIT, whatever
\* used was; called when they agree it changes nothing and returns
\* DAILY_LIMIT - used.
C6_Rollover ==
  probe.out # <<>> =>
    LET r == probe.out[1]
    IN /\ probe.day # probe.today =>
            r.used = 0 /\ r.day = probe.today /\ r.ret = DAILY_LIMIT
       /\ probe.day = probe.today =>
            r.used = probe.used /\ r.day = probe.day
            /\ r.ret = DAILY_LIMIT - probe.used

\* The call was made on a stale day with a full counter.
C6_Witness ==
  /\ probe.out # <<>>
  /\ probe.day # probe.today
  /\ probe.used = DAILY_LIMIT
  /\ probe.out[1].ret = DAILY_LIMIT

\* The session asked for a channel that is not loaded (none is, or none of
\* that name).
NoChannel(s) ==
  pc[s] # "idle" /\ (APIs = <<>> \/ api_name[s] \notin Range(APIs))

\* C7: a session asking for a channel that is not loaded delivers one error
\* and nothing else and ends failed, with the connection closed: no started
\* message, no sitemap fetch, no submission, no bulk forward; and its step
\* leaves every channel's used_count and day as they were.
C7_States ==
  \A s \in Sessions :
    NoChannel(s) =>
      /\ pc[s] \in {"accepted", "failed", "torn"}
      /\ pc[s] = "failed" =>
           /\ Len(sent[s]) = 1
           /\ sent[s][1].kind = "error"
           /\ closed[s]
      /\ pc[s] # "failed" => sent[s] = <<>>
      /\ api[s] = ""
      /\ fetched[s] = <<>>
      /\ posted[s] = <<>>
      /\ hping_args[s] = <<>>
      /\ hping_posted[s] = <<>>

C7_Steps ==
  \A s \in Sessions :
    (NoChannel(s) /\ pc'[s] # pc[s]) => (used' = used /\ day' = day)

C7_UnknownChannel == []C7_States /\ [][C7_Steps]_vars

\* A name that is not among the loaded channels, and the session has failed.
C7_Witness ==
  \E s \in Sessions :
    /\ APIs # <<>>
    /\ api_name[s] \notin Range(APIs)
    /\ pc[s] = "failed"
    /\ Len(sent[s]) = 1

\* The session has a channel and its domain's sitemap resolves neither over
\* HTTPS nor over HTTP.
Unresolvable(s) ==
  /\ api[s] # ""
  /\ ~parse_sitemap(sitemap_url_https(domain[s]), 1).ok
  /\ ~parse_sitemap(sitemap_url_http(domain[s]), 1).ok

\* C8: when both the HTTPS and the HTTP resolution fail, the session
\* delivers started and then one error and ends failed, with the connection
\* closed, having tried both: no sitemap_resolved, item_result,
\* phase_complete or bulk_result, no submission, no bulk forward; and its
\* steps leave every channel's used_count and day as they were.
C8_States ==
  \A s \in Sessions :
    Unresolvable(s) =>
      /\ pc[s] \in {"resolving", "failed", "torn"}
      /\ pc[s] = "failed" =>
           /\ Len(sent[s]) = 2
           /\ sent[s][1].kind = "started"
           /\ sent[s][2].kind = "error"
           /\ closed[s]
           /\ fetched[s] = <<"https", "http">>
      /\ pc[s] # "failed" => IsPrefix(sent[s], <<EvStarted(api[s])>>)
      /\ Kinds(s) \subseteq {"started", "error"}
      /\ posted[s] = <<>>
      /\ hping_args[s] = <<>>
      /\ hping_posted[s] = <<>>

C8_Steps ==
  \A s \in Sessions :
    (Unresolvable(s) /\ pc'[s] # pc[s]) => (used' = used /\ day' = day)

C8_SitemapFailure == []C8_States /\ [][C8_Steps]_vars

\* The session failed at the sitemap after both fetches.
C8_Witness ==
  \E s \in Sessions :
    /\ api[s] # ""
    /\ domain[s] = "c.test"
    /\ pc[s] = "failed"
    /\ fetched[s] = <<"https", "http">>
    /\ Len(sent[s]) = 2

\* The session is past the resolution with a list.
Resolved(s) == pc[s] \in {"dispatching", "phase", "notice", "reporting", "completed"}

\* C9: the HTTP variant is resolved only after the HTTPS resolution failed,
\* and at most once; when HTTPS failed and HTTP gave m URLs the session goes
\* on with sitemap_resolved{total: m} and exactly the HTTP list.
C9_HttpFallback ==
  \A s \in Sessions :
    LET https == parse_sitemap(sitemap_url_https(domain[s]), 1)
        http  == parse_sitemap(sitemap_url_http(domain[s]), 1)
    IN /\ fetched[s] \in {<<>>, <<"https">>, <<"https", "http">>}
       /\ fetched[s] = <<"https", "http">> => ~https.ok
       /\ fetched[s] = <<"https">> => https.ok
       /\ (fetched[s] = <<"https", "http">> /\ http.ok /\ Len(sent[s]) >= 2) =>
            /\ sent[s][2] = EvResolved(Len(http.urls))
            /\ urls[s] = http.urls
            /\ \A u \in Range(urls[s]) : u \notin Range(https.urls)
       /\ (Resolved(s) /\ ~https.ok) =>
            fetched[s] = <<"https", "http">> /\ urls[s] = http.urls

\* HTTPS failed part-way (one child was read, the next could not be
\* fetched), HTTP gave its list and the session ran to the end with it.
C9_Witness ==
  \E s \in Sessions :
    /\ domain[s] = "b.test"
    /\ pc[s] = "completed"
    /\ fetched[s] = <<"https", "http">>
    /\ urls[s] = <<"http://b.test/1">>
    /\ sent[s][2].total = 1

\* C10: whenever a session reaches the bulk forward, the list handed to
\* submit_to_1hping, and the list it sends, is the whole resolved list in
\* its order, whatever was attempted, accepted or rejected before.
C10_BulkGetsAll ==
  \A s \in Sessions :
    /\ pc[s] \in {"reporting", "completed"} => Len(hping_args[s]) = 1
    /\ hping_args[s] # <<>> =>
         /\ hping_args[s] = <<urls[s]>>
         /\ hping_args[s][1] = resolve_with_fallback(domain[s]).urls
         /\ hping_posted[s] \in {<<>>, <<urls[s]>>}
         /\ HPING_API_KEY => hping_posted[s] = <<urls[s]>>

\* The bulk forward ran after a dispatch that attempted one of two URLs,
\* and that one was rejected.
C10_Witness ==
  \E s \in Sessions :
    /\ pc[s] = "completed"
    /\ Len(urls[s]) = 2
    /\ Len(posted[s]) = 1
    /\ fail[s] = 1
    /\ hping_posted[s] = <<urls[s]>>

\* The session's coroutine is running: accepted and not yet ended.
Running(s) == pc[s] \notin Terminal \cup {"idle"}

\* C11: a session whose observer disconnected is torn down at its next send:
\* the step that observes the disconnect delivers nothing, performs no bulk
\* forward and submits at most the URL whose call was in flight; from then
\* on the session delivers nothing, submits nothing and forwards nothing;
\* and no channel's used_count goes down in these steps other than by a day
\* rollover, which begins the new day's count.
C11_States ==
  \A s \in Sessions :
    pc[s] = "torn" =>
      /\ ~connected[s]
      /\ ~closed[s]
      /\ "bulk_result" \notin Kinds(s)

C11_Steps ==
  \A s \in Sessions :
    /\ pc[s] = "torn" =>
         /\ pc'[s] = "torn"
         /\ sent'[s] = sent[s]
         /\ posted'[s] = posted[s]
         /\ hping_args'[s] = hping_args[s]
         /\ hping_posted'[s] = hping_posted[s]
    /\ (Running(s) /\ ~connected[s] /\ pc'[s] # pc[s]) =>
         /\ pc'[s] = "torn"
         /\ sent'[s] = sent[s]
         /\ hping_args'[s] = hping_args[s]
         /\ hping_posted'[s] = hping_posted[s]
         /\ Len(posted'[s]) <= Len(posted[s]) + 1
    /\ pc'[s] = "torn" =>
         \A c \in ChannelNames :
           used'[c] >= used[c] \/ (day'[c] # day[c] /\ used'[c] \in {0, 1})

C11_Disconnect == []C11_States /\ [][C11_Steps]_vars

\* The observer left after the first of two URLs was submitted and reported;
\* the session was torn down with that URL counted and the second submitted
\* while the disconnect was not yet observed.
C11_Witness ==
  \E s \in Sessions :
    /\ pc[s] = "torn"
    /\ api[s] \in ChannelNames
    /\ Len(urls[s]) = 2
    /\ Len(posted[s]) = 2
    /\ Len(sent[s]) = 3
    /\ sent[s][3].kind = "item_result"
    /\ used[api[s]] = 2
    /\ hping_args[s] = <<>>

\* The last message delivered to the session's observer.
Last(s) == sent[s][Len(sent[s])]

\* C12: a bulk forward whose POST raises returns (None, text) from
\* submit_to_1hping; the session then delivers a failed bulk_result, no
\* error message, and ends completed with the connection closed.  Every
\* bulk_result delivered is ok exactly when the status returned is 200.
C12_States ==
  \A s \in Sessions :
    /\ submit_to_1hping(urls[s], TRUE, "raise") =
         [status |-> "None", resp |-> "exception", posted |-> <<urls[s]>>]
    /\ hping_resp[s] = "exception" =>
         /\ hping_status[s] = "None"
         /\ pc[s] \in {"reporting", "completed", "torn"}
         /\ "error" \notin Kinds(s)
         /\ pc[s] = "completed" => Last(s) = EvBulkResult(FALSE)
    /\ pc[s] = "completed" => closed[s] /\ Last(s).kind = "bulk_result"
    /\ \A k \in 1..Len(sent[s]) :
         sent[s][k].kind = "bulk_result" =>
           (sent[s][k].ok <=> hping_status[s] = "200")

C12_Steps ==
  \A s \in Sessions :
    (pc[s] = "reporting" /\ connected[s] /\ pc'[s] # pc[s]) =>
      /\ pc'[s] = "completed"
      /\ closed'[s]
      /\ sent'[s] = Append(sent[s], EvBulkResult(hping_status[s] = "200"))

C12_BulkFailure == []C12_States /\ [][C12_Steps]_vars

\* The POST of the bulk forward raised and the session completed with a
\* failed bulk_result.
C12_Witness ==
  \E s \in Sessions :
    /\ pc[s] = "completed"
    /\ hping_resp[s] = "exception"
    /\ hping_posted[s] = <<urls[s]>>
    /\ Last(s) = EvBulkResult(FALSE)
    /\ closed[s]

\* The item_result messages among the first k delivered, and those with the
\* given verdict.
ItemsBefore(s, k) == {j \in 1..(k - 1) : sent[s][j].kind = "item_result"}

ItemsWith(s, k, ok) == {j \in ItemsBefore(s, k) : sent[s][j].ok = ok}

\* C13: the totals of every phase_complete message add up to the number of
\* item_result messages delivered before it, which is the number of URLs
\* the session attempted and at most the total; success counts the ok items
\* and fail the others, so the URLs left out after quota_exhausted are in
\* neither.  The same holds of the counters when the loop has been left.
C13_Accounting ==
  \A s \in Sessions :
    /\ pc[s] = "phase" =>
         /\ success[s] + fail[s] = Len(posted[s])
         /\ success[s] + fail[s] = Cardinality(ItemsBefore(s, Len(sent[s]) + 1))
    /\ \A k \in 1..Len(sent[s]) :
         LET e == sent[s][k]
         IN e.kind = "phase_complete" =>
              /\ e.success + e.fail = Cardinality(ItemsBefore(s, k))
              /\ e.success = Cardinality(ItemsWith(s, k, TRUE))
              /\ e.fail = Cardinality(ItemsWith(s, k, FALSE))
              /\ e.success + e.fail = Len(posted[s])
              /\ e.success + e.fail <= Len(urls[s])
              /\ sent[s][k - 1].kind = "quota_exhausted" =>
                   e.success + e.fail < Len(urls[s])

\* phase_complete after one rejected URL of two and quota_exhausted: one
\* failure, no success, the second URL in neither.
C13_Witness ==
  \E s \in Sessions :
    /\ Len(sent[s]) >= 5
    /\ sent[s][3].kind = "item_result"
    /\ ~sent[s][3].ok
    /\ sent[s][4].kind = "quota_exhausted"
    /\ sent[s][5] = EvPhaseComplete(0, 1)
    /\ Len(urls[s]) = 2

\* The step is an index_with_api call of session s whose result had an error
\* field (line 280 ran), or had none (line 284 ran).
PostRejected(s) == Posts(s) /\ fail'[s] = fail[s] + 1

PostAccepted(s) == Posts(s) /\ success'[s] = success[s] + 1

\* C14: a submission whose response carries an error field adds one to fail,
\* delivers item_result with ok = false for that URL and leaves the session
\* in the loop (or, after the last URL, at phase_complete); one whose
\* response has no error field, or no parseable body, adds one to success
\* and delivers item_result with ok = true.
C14_ErrorDoesNotAbort ==
  [][\A s \in Sessions :
       LET item(ok) == EvItem(i[s], Len(urls[s]), urls[s][i[s]], ok)
           goes_on == /\ i'[s] = i[s] + 1
                      /\ pc'[s] = IF i[s] < Len(urls[s]) THEN "dispatching"
                                  ELSE "phase"
       IN /\ (PostRejected(s) /\ connected[s]) =>
               /\ success'[s] = success[s]
               /\ sent'[s] = Append(sent[s], item(FALSE))
               /\ goes_on
          /\ (PostAccepted(s) /\ connected[s]) =>
               /\ fail'[s] = fail[s]
               /\ sent'[s] = Append(sent[s], item(TRUE))
               /\ goes_on]_vars

\* The document at the URL is well-formed with a root that is neither a
\* sitemap index nor a url set.
OtherRoot(url) ==
  url \in DOMAIN Web /\ Web[url].root \notin {"sitemapindex", "urlset", "malformed"}

\* C15: a session whose root sitemap has such a root never delivers
\* sitemap_resolved and never enters the dispatch: the resolution raises, and
\* with no HTTP variant to fall back to the session ends failed with an error.
C15_OtherRootFails ==
  \A s \in Sessions :
    (/\ pc[s] # "idle"
     /\ OtherRoot(sitemap_url_https(domain[s]))
     /\ sitemap_url_http(domain[s]) \notin DOMAIN Web) =>
      /\ "sitemap_resolved" \notin Kinds(s)
      /\ pc[s] \in {"accepted", "resolving", "failed", "torn"}
      /\ urls[s] = <<>>
      /\ hping_args[s] = <<>>

\* The leaf page URLs of a sitemap tree in depth-first document order, read
\* off with a stack of the documents still to visit: a url set gives its
\* locs, a sitemap index puts its children, in their order, before the rest.
RECURSIVE DocumentOrder(_, _, _)
DocumentOrder(web, stack, out) ==
  IF stack = <<>> THEN out
  ELSE LET doc == web[Head(stack)]
       IN IF doc.root = "urlset"
          THEN DocumentOrder(web, Tail(stack), out \o doc.locs)
          ELSE DocumentOrder(web, doc.locs \o Tail(stack), out)

RECURSIVE Concat(_)
Concat(lists) == IF lists = <<>> THEN <<>> ELSE Head(lists) \o Concat(Tail(lists))

\* C16: on every sitemap tree, parse_sitemap returns, without raising, the
\* leaf page URLs in depth-first document order: for a url set its locs in
\* their order; for a sitemap index the results of its children, each whole,
\* one after the other in the order listed; a URL met twice is listed twice.
C16_DocumentOrder ==
  probe.out # <<>> =>
    LET r == probe.out[1]
        doc == probe.web[probe.root]
        child(k) == parse_sitemap_on(probe.web, doc.locs[k], 1)
    IN /\ r.ok
       /\ r.urls = DocumentOrder(probe.web, <<probe.root>>, <<>>)
       /\ doc.root = "urlset" => r.urls = doc.locs
       /\ doc.root = "sitemapindex" =>
            /\ \A k \in 1..Len(doc.locs) : child(k).ok
            /\ r.urls = Concat([k \in 1..Len(doc.locs) |-> child(k).urls])

\* An index of an index and a url set: the nested index's pages come before
\* the later sibling's, and the page listed by both is returned twice.
C16_Witness ==
  /\ probe.out # <<>>
  /\ probe.web["n1.xml"] = Doc("sitemapindex", <<"n2.xml", "n3.xml">>)
  /\ probe.web["n2.xml"] = Doc("sitemapindex", <<"n3.xml", "n3.xml">>)
  /\ probe.web["n3.xml"] = Doc("urlset", <<"y", "x">>)
  /\ probe.out[1].urls = <<"y", "x", "y", "x", "y", "x">>

\* C17: whenever a step leaves a channel's used_count raised, the channel's
\* day is the UTC date at that moment: no attempt is counted against a day
\* that is over, also when the date changes between the quota check and the
\* increment.
C17_CountedOnCurrentDay ==
  [][\A c \in ChannelNames :
       (used'[c] # used[c] /\ used'[c] # 0) => day'[c] = today']_vars

\* The session ended, completed after bulk_result or failed after an error,
\* and the controller closed the connection.
Ended(s) ==
  /\ closed[s]
  /\ \/ pc[s] = "completed" /\ Last(s).kind = "bulk_result"
     \/ pc[s] = "failed" /\ Last(s).kind = "error"

\* The domain's root sitemap is a sitemap index that lists itself.
SelfListing(dom) ==
  LET u == sitemap_url_https(dom)
  IN u \in DOMAIN Web /\ Web[u].root = "sitemapindex" /\ u \in Range(Web[u].locs)

\* C18: while the observer stays connected, a session that delivered started
\* ends, completed after bulk_result or failed after an error, with the
\* connection closed, provided its sitemap index does not list itself; a
\* session whose sitemap index lists itself never ends.
C18_EndsUnlessSelfListing ==
  /\ \A s \in Sessions :
       ("started" \in Kinds(s) /\ ~SelfListing(domain[s])) ~> (~connected[s] \/ Ended(s))
  /\ [](\A s \in Sessions :
          ("started" \in Kinds(s) /\ SelfListing(domain[s])) =>
            pc[s] \notin {"completed", "failed"})

\* C18, amended: while the observer stays connected, every session that
\* delivered started ends, completed after bulk_result or failed after an
\* error, with the connection closed; this includes the session whose
\* sitemap index lists itself, whose resolution is ended by the
\* interpreter's recursion limit.
C18_Ends ==
  \A s \in Sessions :
    "started" \in Kinds(s) ~> (~connected[s] \/ Ended(s))

\* The session for the self-listing sitemap index ended failed, after both
\* fetches, with started and an error delivered.
C18_Witness ==
  \E s \in Sessions :
    /\ SelfListing(domain[s])
    /\ connected[s]
    /\ Ended(s)
    /\ pc[s] = "failed"
    /\ fetched[s] = <<"https", "http">>
    /\ Kinds(s) = {"started", "error"}

\* The channel's remaining quota at the current date, the day rollover
\* applied.
RemainingNow(c) == IF day[c] # today THEN DAILY_LIMIT ELSE DAILY_LIMIT - used[c]

\* C19: a check request whose sitemap resolves returns the number of URLs
\* resolved and, as candidates, the loaded channels in registration order
\* whose remaining quota at the current date is at least that number; no
\* check request changes a channel's used_count other than to 0 where the
\* channel's day was not the current date, and none touches a channel that
\* is not loaded.
C19_CheckRequest ==
  [][probe' # probe =>
       LET r == probe'.out[1]
           total == Len(resolve_with_fallback(probe'.dom).urls)
       IN /\ r.ok =>
               /\ r.total = total
               /\ r.candidates =
                    SelectSeq(APIs, LAMBDA c : RemainingNow(c) >= total)
          /\ \A c \in ChannelNames :
               \/ used'[c] = used[c]
               \/ c \in Range(APIs) /\ day[c] # today /\ used'[c] = 0
          /\ \A c \in ChannelNames :
               used'[c] <= used[c] /\ (used'[c] # used[c] => day'[c] = today)]_vars

\* Both channels loaded, API1 at 199 of 200 on the current day after the
\* request: for a domain of two URLs only API2 is a candidate.
C19_Witness ==
  /\ probe.out # <<>>
  /\ probe.dom = "a.test"
  /\ probe.out[1].total = 2
  /\ APIs = <<"API1", "API2">>
  /\ used["API1"] = DAILY_LIMIT - 1
  /\ probe.out[1].candidates = <<"API2">>

\* The step is an index_with_api call of session s whose post raised: an
\* attempt that is not among the channel's answered ones.
PostRaised(s) ==
  /\ Posts(s)
  /\ counted'[api[s]] = IF day'[api[s]] # day[api[s]] THEN 0 ELSE counted[api[s]]

\* The messages of the given kind delivered to the session's observer.
Of(s, kind) == {k \in 1..Len(sent[s]) : sent[s][k].kind = kind}

\* C20: a submission whose post raises leaves the channel's used_count as
\* the quota check left it and both counters as they were, delivers no
\* item_result for the URL but one error, and ends the session failed with
\* the connection closed.  A failed session has delivered one error and no
\* phase_complete or bulk message, has performed no bulk forward and
\* attempts nothing more.
C20_States ==
  \A s \in Sessions :
    pc[s] = "failed" =>
      /\ closed[s]
      /\ Cardinality(Of(s, "error")) = 1
      /\ Last(s).kind = "error"
      /\ Kinds(s) \cap {"phase_complete", "bulk_forwarding", "bulk_result"} = {}
      /\ hping_args[s] = <<>>
      /\ hping_posted[s] = <<>>
      /\ posted[s] # <<>> => Cardinality(Of(s, "item_result")) = Len(posted[s]) - 1

C20_Steps ==
  \A s \in Sessions :
    /\ PostRaised(s) =>
         /\ used'[api[s]] = UsedAtPost(api[s])
         /\ success'[s] = success[s] /\ fail'[s] = fail[s]
         /\ connected[s] =>
              /\ sent'[s] = Append(sent[s], EvError("server"))
              /\ pc'[s] = "failed"
              /\ closed'[s]
         /\ ~connected[s] => sent'[s] = sent[s] /\ pc'[s] = "torn"
    /\ pc[s] = "failed" =>
         /\ pc'[s] = "failed"
         /\ sent'[s] = sent[s]
         /\ posted'[s] = posted[s]
         /\ hping_args'[s] = hping_args[s]

C20_TransportRaise == []C20_States /\ [][C20_Steps]_vars

\* The post of the first of two URLs raised: the channel still at 0 on the
\* current day, no item, one error after started and sitemap_resolved.
C20_Witness ==
  \E s \in Sessions :
    /\ pc[s] = "failed"
    /\ api[s] \in ChannelNames
    /\ Len(urls[s]) = 2
    /\ Len(posted[s]) = 1
    /\ used[api[s]] = 0
    /\ day[api[s]] = today
    /\ fail[s] = 0
    /\ Len(sent[s]) = 3
    /\ sent[s][3] = EvError("server")

====
